---- MODULE Spec2Model ----
(***************************************************************************)
(* Orchestration core of af-training: the ProcessManager (process table),  *)
(* the TrainingJob records and their request handlers, the EventManager    *)
(* (subscriber queues, broadcast) and its background monitor.              *)
(*                                                                         *)
(* Scheduling as in the source: the request handlers of routers/training   *)
(* are plain `def` endpoints, which FastAPI runs on worker threads; the    *)
(* monitor, broadcast and the subscribe generators run on the one asyncio  *)
(* event loop.  Neither ProcessManager nor the handlers take any lock, so  *)
(* a handler is a sequence of steps, each with at most one write of shared *)
(* state (the process table, a signal, the job table); a read of the job   *)
(* table that is directly followed by a lookup in the process table is one *)
(* step with it (every step of another thread writes at most one of the    *)
(* two, so it can be ordered before or after the pair).                    *)
(*                                                                         *)
(* OS process ids are taken fresh for every spawn (no pid reuse), and job  *)
(* ids are not assigned again after clear_jobs.                            *)
(***************************************************************************)
EXTENDS Integers, Sequences, FiniteSets, TLC

\* ---------------------------------------------------------------- bounds
\* Processes spawned over the run.
MaxPid == 2
Pids == 1..MaxPid

\* Connections to GET /events over the run, and broadcast calls over the run.
MaxConns == 3
MaxBroadcasts == 2
Conns == 1..MaxConns

\* TrainingJob rows created over the run.
MaxJobs == 2
JobIds == 1..MaxJobs

\* Requests to the training router over the run.
MaxCalls == 3

\* Characters a process writes to its log file over its life.
MaxLog == 2

\* Request-handler worker threads, and the monitor task of the event loop.
Threads == {"t1", "t2"}
Mon == "mon"
Callers == Threads \cup {Mon}

VARIABLES
    processes,    \* ProcessManager._processes: the pids that are keys of the dict
    osState,      \* per pid: "none" (not spawned), "alive", "exited" (poll() is not None)
    sig,          \* per pid: strongest signal sent so far: "none", "term", "kill"
    frame,        \* per caller: the ProcessManager call it is executing, or its result
    stopped,      \* history: pids for which some stop_process call returned True
    subscribers,  \* EventManager._subscribers: the list of queues, each named by its connection
    queues,       \* per connection: the content of the asyncio.Queue its generator made
    gen,          \* per connection: where its subscribe() generator is
    received,     \* per connection: the ServerSentEvents its generator has yielded
    sent,         \* history: the messages of the broadcast calls, in call order
    openedAt,     \* history: per connection, Len(sent) when its queue was appended (-1: not yet)
    closedAt,     \* history: per connection, Len(sent) when its queue was removed (-1: not yet)
    jobs,         \* the TrainingJob table: per id, the committed row
    th,           \* per request thread: the handler it runs and that handler's locals
    mon,          \* the locals of EventManager.monitor_jobs
    calls,        \* history: the requests the training router has accepted so far
    tracked,      \* EventManager._tracked_processes: its keys (pids) in insertion order
    info,         \* per pid: its _tracked_processes entry (type, name, log_path, log_pos)
    logs,         \* per log file: its content
    fds,          \* per pid: the log file that is its stdout, and the offset it writes at
    announced     \* history: per pid, how many completed events were broadcast for its entry

pmVars == <<processes, osState, sig, frame, stopped>>
busVars == <<subscribers, queues, gen, received, sent, openedAt, closedAt>>
jobVars == <<jobs, th, mon, calls>>
trackVars == <<tracked, info, logs, fds, announced>>
vars == <<processes, osState, sig, frame, stopped,
          subscribers, queues, gen, received, sent, openedAt, closedAt,
          jobs, th, mon, calls, tracked, info, logs, fds, announced>>

\* ---------------------------------------------------------------- ProcessManager
IdleFrame == [op |-> "idle", pc |-> "idle", pid |-> 0, ret |-> "none", arg |-> "-"]

FreshPids == {p \in Pids : osState[p] = "none"}
NextPid == CHOOSE p \in FreshPids : \A q \in FreshPids : p <= q

\* The OS process has not exited.
Alive(p) == osState[p] = "alive"

\* The caller is not inside a ProcessManager call.
CanCall(c) == frame[c].pc \in {"idle", "done"}

Register_NotStored(p) == processes

\* The table after `self._processes[process.pid] = process`.
Register(p) == processes \cup {p}

\* start_process(command, log_file_path) when the log file can be created and
\* the command launched: makedirs, open(log, "w"), Popen, register, return pid.
start_process_ok(c) ==
    /\ CanCall(c)
    /\ FreshPids # {}
    /\ LET p == NextPid IN
        /\ osState' = [osState EXCEPT ![p] = "alive"]
        /\ processes' = Register(p)
        /\ frame' = [frame EXCEPT ![c] = [op |-> "start", pc |-> "done", pid |-> p,
                                          ret |-> "pid", arg |-> "ok"]]
    /\ UNCHANGED <<sig, stopped>>

FailedStartTable_RegisteredFirst ==
    IF FreshPids # {} THEN processes \cup {NextPid} ELSE processes

\* The table after a start_process that raised (makedirs/open or Popen failed
\* before the registration line was reached).
FailedStartTable == processes

\* start_process when the log file cannot be created ("badlog") or the command
\* cannot be launched ("badcmd"): except Exception: log and re-raise.
start_process_fail(c, arg) ==
    /\ CanCall(c)
    /\ arg \in {"badlog", "badcmd"}
    /\ processes' = FailedStartTable
    /\ frame' = [frame EXCEPT ![c] = [op |-> "start", pc |-> "done", pid |-> 0,
                                      ret |-> "OSError", arg |-> arg]]
    /\ UNCHANGED <<osState, sig, stopped>>

\* The signals after process.terminate(): SIGTERM, unless the process was
\* already reaped.
Terminated(p) == IF Alive(p) /\ sig[p] = "none" THEN [sig EXCEPT ![p] = "term"] ELSE sig

\* stop_process(pid): process = self._processes.get(pid); if process:
\* process.terminate(), and on to the wait; else return False
stop_process_get(c, p) ==
    /\ CanCall(c)
    /\ IF p \in processes
         THEN /\ frame' = [frame EXCEPT ![c] = [op |-> "stop", pc |-> "wait", pid |-> p,
                                                ret |-> "none", arg |-> "-"]]
              /\ sig' = Terminated(p)
         ELSE /\ frame' = [frame EXCEPT ![c] = [op |-> "stop", pc |-> "done", pid |-> p,
                                                ret |-> "false", arg |-> "-"]]
              /\ UNCHANGED sig
    /\ UNCHANGED <<processes, osState, stopped>>

\* process.wait(timeout=5) returns: the process has exited within the grace wait.
stop_process_waited(c) ==
    /\ frame[c].op = "stop" /\ frame[c].pc = "wait"
    /\ ~Alive(frame[c].pid)
    /\ frame' = [frame EXCEPT ![c].pc = "del"]
    /\ UNCHANGED <<processes, osState, sig, stopped>>
    /\ UNCHANGED <<busVars, jobVars, trackVars>>

\* Whether the wait ends in TimeoutExpired: the process is alive after 5 s.
TimedOut(p) == Alive(p)

\* except subprocess.TimeoutExpired: process.kill() (SIGKILL is sent, not awaited).
stop_process_timeout(c) ==
    /\ frame[c].op = "stop" /\ frame[c].pc = "wait"
    /\ TimedOut(frame[c].pid)
    /\ sig' = [sig EXCEPT ![frame[c].pid] = "kill"]
    /\ frame' = [frame EXCEPT ![c].pc = "del"]
    /\ UNCHANGED <<processes, osState, stopped>>
    /\ UNCHANGED <<busVars, jobVars, trackVars>>

Unregister_Kept(p) == processes

\* The table after `del self._processes[pid]`.
Unregister(p) == processes \ {p}

\* del self._processes[pid]; return True.  The del raises KeyError when the key
\* is gone (another stop_process removed it since the lookup).
stop_process_del(c) ==
    /\ frame[c].op = "stop" /\ frame[c].pc = "del"
    /\ LET p == frame[c].pid IN
        IF p \in processes
          THEN /\ processes' = Unregister(p)
               /\ stopped' = stopped \cup {p}
               /\ frame' = [frame EXCEPT ![c].pc = "done", ![c].ret = "true"]
          ELSE /\ frame' = [frame EXCEPT ![c].pc = "done", ![c].ret = "KeyError"]
               /\ UNCHANGED <<processes, stopped>>
    /\ UNCHANGED <<osState, sig>>
    /\ UNCHANGED <<busVars, jobVars, trackVars>>

\* is_process_running(pid): process = self._processes.get(pid); if process: ... ;
\* return False
is_process_running_get(c, p) ==
    /\ CanCall(c)
    /\ frame' = [frame EXCEPT ![c] =
         IF p \in processes
           THEN [op |-> "isrun", pc |-> "poll", pid |-> p, ret |-> "none", arg |-> "-"]
           ELSE [op |-> "isrun", pc |-> "done", pid |-> p, ret |-> "false", arg |-> "-"]]
    /\ UNCHANGED <<processes, osState, sig, stopped>>

PollIsNone_Registered(p) == TRUE

\* The value of `process.poll() is None`.
PollIsNone(p) == Alive(p)

\* return process.poll() is None
is_process_running_poll(c) ==
    /\ frame[c].op = "isrun" /\ frame[c].pc = "poll"
    /\ frame' = [frame EXCEPT ![c].pc = "done",
                              ![c].ret = IF PollIsNone(frame[c].pid) THEN "true" ELSE "false"]
    /\ UNCHANGED <<processes, osState, sig, stopped>>
    /\ UNCHANGED <<busVars, jobVars, trackVars>>

\* The later steps of the ProcessManager call caller c is in.
PMStep(c) ==
    \/ stop_process_waited(c)
    \/ stop_process_timeout(c)
    \/ stop_process_del(c)
    \/ is_process_running_poll(c)

\* The OS process ends: by itself, or because of a signal it received.
ProcExit(p) ==
    /\ Alive(p)
    /\ osState' = [osState EXCEPT ![p] = "exited"]
    /\ UNCHANGED <<processes, sig, frame, stopped>>
    /\ UNCHANGED <<busVars, jobVars, trackVars>>

\* ---------------------------------------------------------------- EventManager
\* Everything here runs on the asyncio event loop, where a coroutine runs
\* undisturbed from one suspension to the next.  The queues are asyncio.Queue()
\* with no maxsize, whose put() never suspends, so a whole broadcast call is one
\* step; a subscribe() generator is suspended either in `await queue.get()`
\* (gen = "get") or at its `yield` while the response sends the event
\* (gen = "yield").
EventTypes == {"job_completed", "log_update"}
Payloads == {"a", "b"}

\* message = {"type": event_type, "data": data}
Message(event_type, data) == [type |-> event_type, data |-> data]

\* ServerSentEvent(data=json.dumps(data), event="message")
ServerSentEvent(message) == [event |-> "message", data |-> <<"json", message.type, message.data>>]

InList(k, list) == \E i \in 1..Len(list) : list[i] = k

\* list.remove(x): the list without the first element equal to x.
RECURSIVE Remove(_, _)
Remove(list, x) ==
    IF list = <<>> THEN <<>>
    ELSE IF Head(list) = x THEN Tail(list)
    ELSE <<Head(list)>> \o Remove(Tail(list), x)

RECURSIVE Deliver_Front(_, _, _)
Deliver_Front(qs, list, message) ==
    IF list = <<>> THEN qs
    ELSE Deliver_Front([qs EXCEPT ![Head(list)] = <<message>> \o @], Tail(list), message)

\* for queue in self._subscribers: await queue.put(message)
RECURSIVE Deliver(_, _, _)
Deliver(qs, list, message) ==
    IF list = <<>> THEN qs
    ELSE Deliver([qs EXCEPT ![Head(list)] = Append(@, message)], Tail(list), message)

Broadcast_FirstOnly(message) ==
    /\ queues' = IF subscribers = <<>> THEN queues
                 ELSE [queues EXCEPT ![Head(subscribers)] = Append(@, message)]
    /\ sent' = Append(sent, message)
    /\ UNCHANGED <<subscribers, gen, received, openedAt, closedAt>>

\* queue = asyncio.Queue(): maxsize is its default, 0, which means no limit.
QueueMaxsize == 0

Full_AtOne(q) == Len(q) >= 1

\* Queue.full(): put() suspends its caller while this holds.
Full(q) == QueueMaxsize > 0 /\ Len(q) >= QueueMaxsize

\* EventManager.broadcast(event_type, data), as a change of the bus state.  The
\* call completes when no put() has to wait.
Broadcast(message) ==
    /\ \A i \in 1..Len(subscribers) : ~Full(queues[subscribers[i]])
    /\ queues' = Deliver(queues, subscribers, message)
    /\ sent' = Append(sent, message)
    /\ UNCHANGED <<subscribers, gen, received, openedAt, closedAt>>

\* A broadcast call with any type and payload.
broadcast(event_type, data) ==
    /\ Len(sent) < MaxBroadcasts
    /\ Broadcast(Message(event_type, data))
    /\ UNCHANGED <<pmVars, jobVars, trackVars>>

\* GET /events: EventSourceResponse(event_manager.subscribe()).  Calling the
\* async generator function runs none of its body.
events(k) ==
    /\ gen[k] = "none"
    /\ gen' = [gen EXCEPT ![k] = "created"]
    /\ UNCHANGED <<subscribers, queues, received, sent, openedAt, closedAt>>
    /\ UNCHANGED <<pmVars, jobVars, trackVars>>

\* The response starts iterating: queue = asyncio.Queue();
\* self._subscribers.append(queue); then suspended in the first queue.get().
subscribe_start(k) ==
    /\ gen[k] = "created"
    /\ subscribers' = Append(subscribers, k)
    /\ gen' = [gen EXCEPT ![k] = "get"]
    /\ openedAt' = [openedAt EXCEPT ![k] = Len(sent)]
    /\ UNCHANGED <<queues, received, sent, closedAt>>
    /\ UNCHANGED <<pmVars, jobVars, trackVars>>

\* data = await queue.get(); yield ServerSentEvent(...)
subscribe_get(k) ==
    /\ gen[k] = "get"
    /\ queues[k] # <<>>
    /\ received' = [received EXCEPT ![k] = Append(@, ServerSentEvent(Head(queues[k])))]
    /\ queues' = [queues EXCEPT ![k] = Tail(@)]
    /\ gen' = [gen EXCEPT ![k] = "yield"]
    /\ UNCHANGED <<subscribers, sent, openedAt, closedAt>>
    /\ UNCHANGED <<pmVars, jobVars, trackVars>>

\* The response has sent the event and asks for the next one: the loop goes
\* round, and suspends in queue.get() when the queue is empty.
subscribe_next(k) ==
    /\ gen[k] = "yield"
    /\ IF queues[k] = <<>>
         THEN /\ gen' = [gen EXCEPT ![k] = "get"]
              /\ UNCHANGED <<queues, received>>
         ELSE /\ received' = [received EXCEPT ![k] = Append(@, ServerSentEvent(Head(queues[k])))]
              /\ queues' = [queues EXCEPT ![k] = Tail(@)]
              /\ UNCHANGED gen
    /\ UNCHANGED <<subscribers, sent, openedAt, closedAt>>
    /\ UNCHANGED <<pmVars, jobVars, trackVars>>

\* The subscriber list after the except clause of subscribe().
Unsubscribe(k) == Remove(subscribers, k)

\* The consumer disconnects while the generator is suspended in queue.get():
\* the task is cancelled there; except asyncio.CancelledError:
\* self._subscribers.remove(queue).  The queue is garbage from then on.
subscribe_cancelled(k) ==
    /\ gen[k] = "get"
    /\ subscribers' = Unsubscribe(k)
    /\ queues' = [queues EXCEPT ![k] = <<>>]
    /\ gen' = [gen EXCEPT ![k] = "closed"]
    /\ closedAt' = [closedAt EXCEPT ![k] = Len(sent)]
    /\ UNCHANGED <<received, sent, openedAt>>
    /\ UNCHANGED <<pmVars, jobVars, trackVars>>

\* The consumer disconnects while the generator is suspended at its yield (the
\* response is in `await send(...)`): the cancellation is raised in the
\* response's task, not in the generator, which is closed with GeneratorExit;
\* `except asyncio.CancelledError` does not catch that.
subscribe_closed_at_yield(k) ==
    /\ gen[k] = "yield"
    /\ gen' = [gen EXCEPT ![k] = "closed"]
    /\ UNCHANGED <<subscribers, queues, received, sent, openedAt, closedAt>>
    /\ UNCHANGED <<pmVars, jobVars, trackVars>>

\* The consumer disconnects before the response has started iterating.
subscribe_never_started(k) ==
    /\ gen[k] = "created"
    /\ gen' = [gen EXCEPT ![k] = "closed"]
    /\ UNCHANGED <<subscribers, queues, received, sent, openedAt, closedAt>>
    /\ UNCHANGED <<pmVars, jobVars, trackVars>>

\* ---------------------------------------------------------------- training jobs
\* A row of TrainingJob, reduced to the columns the handlers and the monitor read
\* or write: status, end_time, pid (0 is None), log_path (set or not).
\* end_time is datetime.utcnow() at each assignment, every reading a new value:
\* the row holds how many readings have been stored in the column (0 is None),
\* which changes exactly when the stored value does.
\* status "none" marks an id not yet assigned, "deleted" a row deleted by
\* clear_jobs.
NoRow == [status |-> "none", end_time |-> 0, pid |-> 0, log_path |-> FALSE]
Exists(j) == jobs[j].status \notin {"none", "deleted"}
Terminal == {"completed", "failed", "stopped"}

IdleThread == [op |-> "idle", pc |-> "idle", job |-> 0, todo |-> <<>>, dirty |-> <<>>,
               loaded |-> {}]
Free(t) == th[t].pc = "idle"

\* The ids of S in ascending order, each with the pid of its row as loaded.
RECURSIVE Ascending(_)
Ascending(S) ==
    IF S = {} THEN <<>>
    ELSE LET m == CHOOSE x \in S : \A y \in S : x <= y
         IN <<<<m, jobs[m].pid>>>> \o Ascending(S \ {m})

\* job.status == "running" and job.pid, on the row as loaded
RunningWithPid(j) == jobs[j].status = "running" /\ jobs[j].pid # 0

\* The row written by `job.status = "failed"; session.add(job); session.commit()`.
FailedRow(row) == [row EXCEPT !.status = "failed"]

\* The row written by `job.status = s; job.end_time = datetime.utcnow(); commit`:
\* an UPDATE of the two columns by primary key, whatever the row holds by then.
TerminalRow(row, s) == [row EXCEPT !.status = s, !.end_time = @ + 1]

\* start_training, lines 42-60: the row is inserted and committed in status
\* running; an unsupported model_type or a config the strategy rejects
\* (valid = FALSE) then raises HTTPException(400).
start_training_create(t, valid) ==
    /\ Free(t)
    /\ \E j \in JobIds :
        /\ jobs[j].status = "none"
        /\ \A i \in JobIds : i < j => jobs[i].status # "none"
        /\ jobs' = [jobs EXCEPT ![j] = [status |-> "running", end_time |-> 0,
                                        pid |-> 0, log_path |-> FALSE]]
        /\ th' = [th EXCEPT ![t] =
             IF valid THEN [IdleThread EXCEPT !.op = "start", !.pc = "spawn", !.job = j]
             ELSE IdleThread]
    /\ UNCHANGED <<pmVars, mon>>
    /\ calls < MaxCalls /\ calls' = calls + 1
    /\ UNCHANGED <<busVars, trackVars>>

\* start_training, line 65: pid = process_manager.start_process(cmd, log_path)
start_training_spawn(t) ==
    /\ th[t].op = "start" /\ th[t].pc = "spawn"
    /\ \/ start_process_ok(t)
       \/ \E arg \in {"badlog", "badcmd"} : start_process_fail(t, arg)
    /\ th' = [th EXCEPT ![t].pc = "attach"]
    /\ UNCHANGED <<jobs, mon>>
    /\ UNCHANGED <<busVars, calls, trackVars>>

\* start_training, lines 66-77: the pid and the log path are committed on the
\* row; if start_process raised (or this commit fails because the row was
\* deleted meanwhile) the except clause commits status failed and raises
\* HTTPException(500).
start_training_attach(t) ==
    /\ th[t].op = "start" /\ th[t].pc = "attach"
    /\ LET j == th[t].job IN
        jobs' = IF ~Exists(j) THEN jobs
                ELSE IF frame[t].ret = "pid"
                THEN [jobs EXCEPT ![j].pid = frame[t].pid, ![j].log_path = TRUE]
                ELSE [jobs EXCEPT ![j] = FailedRow(@)]
    /\ th' = [th EXCEPT ![t] = IdleThread]
    /\ frame' = [frame EXCEPT ![t] = IdleFrame]
    /\ UNCHANGED <<processes, osState, sig, stopped, mon>>
    /\ UNCHANGED <<busVars, calls, trackVars>>

\* get_job, lines 97-102: load the row; 404 when there is none; when it is
\* running with a pid, ask is_process_running (its lookup is part of this step).
get_job_load(t, j) ==
    /\ Free(t)
    /\ IF Exists(j) /\ RunningWithPid(j)
         THEN /\ is_process_running_get(t, jobs[j].pid)
              /\ th' = [th EXCEPT ![t] = [IdleThread EXCEPT !.op = "get", !.pc = "check", !.job = j]]
         ELSE UNCHANGED <<pmVars, th>>
    /\ UNCHANGED <<jobs, mon>>
    /\ calls < MaxCalls /\ calls' = calls + 1
    /\ UNCHANGED <<busVars, trackVars>>

\* get_job, lines 102-109: if the process is not running, commit completed and
\* end_time.  The UPDATE finds no row when clear_jobs deleted it (StaleDataError).
get_job_commit(t) ==
    /\ th[t].op = "get" /\ th[t].pc = "check" /\ frame[t].pc = "done"
    /\ LET j == th[t].job IN
        jobs' = IF frame[t].ret = "false" /\ Exists(j)
                  THEN [jobs EXCEPT ![j] = TerminalRow(@, "completed")]
                  ELSE jobs
    /\ th' = [th EXCEPT ![t] = IdleThread]
    /\ frame' = [frame EXCEPT ![t] = IdleFrame]
    /\ UNCHANGED <<processes, osState, sig, stopped, mon>>
    /\ UNCHANGED <<busVars, calls, trackVars>>

\* Whether stop_job goes on to stop the process of the row it loaded.
StopsProcess(j) == Exists(j) /\ RunningWithPid(j)

\* stop_job, lines 113-118 and 127: load the row; 404 when there is none; when
\* it is running with a pid, call stop_process (its lookup and terminate() are
\* part of this step); otherwise answer "Job is not running".
stop_job_load(t, j) ==
    /\ Free(t)
    /\ IF StopsProcess(j)
         THEN /\ stop_process_get(t, jobs[j].pid)
              /\ th' = [th EXCEPT ![t] = [IdleThread EXCEPT !.op = "stop", !.pc = "stopping", !.job = j]]
         ELSE UNCHANGED <<pmVars, th>>
    /\ UNCHANGED <<jobs, mon>>
    /\ calls < MaxCalls /\ calls' = calls + 1
    /\ UNCHANGED <<busVars, trackVars>>

\* stop_job, lines 118-125: if stop_process returned True, commit stopped and
\* end_time; if it returned False, HTTPException(500); a KeyError of
\* stop_process is not caught (a 500 as well).
stop_job_commit(t) ==
    /\ th[t].op = "stop" /\ th[t].pc = "stopping" /\ frame[t].pc = "done"
    /\ LET j == th[t].job IN
        jobs' = IF frame[t].ret = "true" /\ Exists(j)
                  THEN [jobs EXCEPT ![j] = TerminalRow(@, "stopped")]
                  ELSE jobs
    /\ th' = [th EXCEPT ![t] = IdleThread]
    /\ frame' = [frame EXCEPT ![t] = IdleFrame]
    /\ UNCHANGED <<processes, osState, sig, stopped, mon>>
    /\ UNCHANGED <<busVars, calls, trackVars>>

\* The rows after the UPDATEs of list_jobs' commit: every job marked in the loop
\* gets completed and the end_time read when it was marked.
RECURSIVE ApplyDirty(_, _)
ApplyDirty(rows, dirty) ==
    IF dirty = <<>> THEN rows
    ELSE ApplyDirty([rows EXCEPT ![Head(dirty)] = TerminalRow(@, "completed")], Tail(dirty))

\* list_jobs, lines 81-85: load all rows; the first running job with a pid is
\* checked with is_process_running.  With no such job the commit writes nothing.
list_jobs_load(t) ==
    /\ Free(t)
    /\ LET todo == Ascending({j \in JobIds : Exists(j) /\ RunningWithPid(j)}) IN
        IF todo = <<>>
          THEN UNCHANGED <<pmVars, th>>
          ELSE /\ is_process_running_get(t, todo[1][2])
               /\ th' = [th EXCEPT ![t] = [IdleThread EXCEPT !.op = "list", !.pc = "check",
                                             !.todo = todo]]
    /\ UNCHANGED <<jobs, mon>>
    /\ calls < MaxCalls /\ calls' = calls + 1
    /\ UNCHANGED <<busVars, trackVars>>

\* list_jobs, lines 83-93: a job whose process is not running is marked
\* completed with end_time now; the loop goes on to the next running job; after
\* the loop one commit writes all marked rows (none, if one of them was deleted
\* meanwhile: the flush raises and the transaction is rolled back).
list_jobs_next(t) ==
    /\ th[t].op = "list" /\ th[t].pc = "check" /\ frame[t].pc = "done"
    /\ LET j == Head(th[t].todo)[1]
           rest == Tail(th[t].todo)
           dirty == IF frame[t].ret = "false" THEN Append(th[t].dirty, j) ELSE th[t].dirty
       IN IF rest # <<>>
            THEN /\ is_process_running_get(t, rest[1][2])
                 /\ th' = [th EXCEPT ![t].todo = rest, ![t].dirty = dirty]
                 /\ UNCHANGED jobs
            ELSE /\ jobs' = IF \A i \in 1..Len(dirty) : Exists(dirty[i])
                              THEN ApplyDirty(jobs, dirty) ELSE jobs
                 /\ th' = [th EXCEPT ![t] = IdleThread]
                 /\ frame' = [frame EXCEPT ![t] = IdleFrame]
                 /\ UNCHANGED <<processes, osState, sig, stopped>>
    /\ UNCHANGED mon
    /\ UNCHANGED <<busVars, calls, trackVars>>

\* The table after clear_jobs' commit: every row the handler loaded is deleted.
Cleared(loaded) == [j \in JobIds |-> IF j \in loaded /\ Exists(j)
                                       THEN [NoRow EXCEPT !.status = "deleted"]
                                       ELSE jobs[j]]

\* clear_jobs, lines 141-145: load all rows; stop_process is called for the
\* first running job with a pid.
clear_jobs_load(t) ==
    /\ Free(t)
    /\ LET todo == Ascending({j \in JobIds : Exists(j) /\ RunningWithPid(j)})
           mine == [IdleThread EXCEPT !.op = "clear", !.todo = todo,
                                      !.loaded = {j \in JobIds : Exists(j)}]
       IN IF todo = <<>>
            THEN /\ th' = [th EXCEPT ![t] = [mine EXCEPT !.pc = "commit"]]
                 /\ UNCHANGED pmVars
            ELSE /\ stop_process_get(t, todo[1][2])
                 /\ th' = [th EXCEPT ![t] = [mine EXCEPT !.pc = "stopping"]]
    /\ UNCHANGED <<jobs, mon>>
    /\ calls < MaxCalls /\ calls' = calls + 1
    /\ UNCHANGED <<busVars, trackVars>>

\* clear_jobs, lines 142-148: the result of stop_process is ignored (a KeyError
\* from it ends the handler with nothing deleted); session.delete(job); on to
\* the next running job; after the loop the commit deletes the loaded rows.
clear_jobs_next(t) ==
    /\ th[t].op = "clear" /\ th[t].pc = "stopping" /\ frame[t].pc = "done"
    /\ LET rest == Tail(th[t].todo) IN
        IF frame[t].ret # "KeyError" /\ rest # <<>>
          THEN /\ stop_process_get(t, rest[1][2])
               /\ th' = [th EXCEPT ![t].todo = rest]
               /\ UNCHANGED jobs
          ELSE /\ jobs' = IF frame[t].ret = "KeyError" THEN jobs ELSE Cleared(th[t].loaded)
               /\ th' = [th EXCEPT ![t] = IdleThread]
               /\ frame' = [frame EXCEPT ![t] = IdleFrame]
               /\ UNCHANGED <<processes, osState, sig, stopped>>
    /\ UNCHANGED mon
    /\ UNCHANGED <<busVars, calls, trackVars>>

\* clear_jobs, line 147, when no loaded job was running with a pid.
clear_jobs_commit(t) ==
    /\ th[t].op = "clear" /\ th[t].pc = "commit"
    /\ jobs' = Cleared(th[t].loaded)
    /\ th' = [th EXCEPT ![t] = IdleThread]
    /\ UNCHANGED <<pmVars, mon>>
    /\ UNCHANGED <<busVars, calls, trackVars>>

\* ---------------------------------------------------------------- the monitor
\* monitor_jobs, part 1 (the TrainingJob rows).  The Session is created with
\* its defaults, so a commit expires every loaded row and the next attribute
\* read of a row reloads it (and raises if the row is gone).
\* err is the error that the monitor has logged (logger.error) for the entry it
\* is at, or the one that ended the tick.
SleepingMonitor == [pc |-> "sleep", todo |-> <<>>, expired |-> FALSE, cur |-> "-",
                    titer |-> <<>>, tsize |-> 0, completed_pids |-> <<>>, err |-> "-"]

\* lines 60-62: select(TrainingJob).where(status == "running")
monitor_select ==
    /\ mon.pc = "sleep"
    /\ mon' = [SleepingMonitor EXCEPT !.pc = "jobs",
                 !.todo = Ascending({j \in JobIds : Exists(j) /\ jobs[j].status = "running"})]
    /\ UNCHANGED <<pmVars, jobs, th>>
    /\ UNCHANGED <<busVars, calls, trackVars>>

\* lines 64-66: `if job.pid:` on the next job of the result, read from the
\* loaded row or, after a commit of this tick, from the reloaded one; with a
\* pid, is_process_running(job.pid).  The reload of a deleted row raises, which
\* ends the tick (line 111).
monitor_check ==
    /\ mon.pc = "jobs" /\ mon.todo # <<>>
    /\ LET j == Head(mon.todo)[1]
           pid == IF mon.expired THEN jobs[j].pid ELSE Head(mon.todo)[2]
           cur == IF mon.expired THEN jobs[j].status ELSE "running"
       IN IF mon.expired /\ ~Exists(j)
            THEN /\ mon' = SleepingMonitor
                 /\ UNCHANGED pmVars
            ELSE IF pid = 0
            THEN /\ mon' = [mon EXCEPT !.todo = Tail(@)]
                 /\ UNCHANGED pmVars
            ELSE /\ is_process_running_get(Mon, pid)
                 /\ mon' = [mon EXCEPT !.pc = "wait", !.cur = cur]
    /\ UNCHANGED <<jobs, th>>
    /\ UNCHANGED <<busVars, calls, trackVars>>

\* The row after the monitor's commit: status (unless the reloaded row already
\* said completed, which makes the assignment no change) and end_time.
MonitorRow(row, cur) ==
    IF cur = "completed" THEN [row EXCEPT !.end_time = @ + 1]
    ELSE TerminalRow(row, "completed")

\* The job_completed event of job j.
JobCompleted(j) == Message("job_completed", [id |-> j, status |-> "completed"])

\* lines 66-77: if the process is not running: status completed, end_time,
\* commit, broadcast job_completed.  The commit of a deleted row raises, which
\* ends the tick.
monitor_mark ==
    /\ mon.pc = "wait" /\ frame[Mon].pc = "done"
    /\ LET j == Head(mon.todo)[1] IN
        IF frame[Mon].ret = "true"
          THEN /\ mon' = [mon EXCEPT !.pc = "jobs", !.todo = Tail(@), !.cur = "-"]
               /\ UNCHANGED <<jobs, busVars>>
          ELSE IF Exists(j)
          THEN /\ jobs' = [jobs EXCEPT ![j] = MonitorRow(@, mon.cur)]
               /\ mon' = [mon EXCEPT !.pc = "jobs", !.todo = Tail(@), !.cur = "-",
                                     !.expired = TRUE]
               /\ Broadcast(JobCompleted(j))
          ELSE /\ mon' = SleepingMonitor
               /\ UNCHANGED <<jobs, busVars>>
    /\ frame' = [frame EXCEPT ![Mon] = IdleFrame]
    /\ UNCHANGED <<processes, osState, sig, stopped, th, calls, trackVars>>

\* lines 79-114 when _tracked_processes is empty: the rows are done, the loops
\* over the tracked processes do nothing; await asyncio.sleep(2).
monitor_sleep ==
    /\ mon.pc = "jobs" /\ mon.todo = <<>>
    /\ tracked = <<>>
    /\ mon' = SleepingMonitor
    /\ UNCHANGED <<pmVars, jobs, th>>
    /\ UNCHANGED <<busVars, calls, trackVars>>

\* ---------------------------------------------------------------- tracked processes
\* The export and calibration processes, which have no TrainingJob row:
\* routers/models.py starts them and has the EventManager track them; part 2 of
\* monitor_jobs tails their log files and announces their end.
\* The log file of a request is named after the handler and the model
\* (export_{name}.log, calibrate_{name}.log).  A log file is a sequence of
\* characters: "c" for any character of a line, "nl" for the line feed, "nul"
\* for a byte of a hole (a write beyond the end of the file).
Types == {"export", "calibration"}
Names == {"m1"}
Files == [type : Types, name : Names]
NoFile == [type |-> "-", name |-> "-"]
NoFd == [file |-> NoFile, off |-> 0]
NoInfo == [type |-> "-", name |-> "-", log_path |-> NoFile, log_pos |-> 0]
Chars == {"c", "nl"}

\* export_model / calibrate_model for model `name`, lines 88-93 / 163-167:
\* pid = process_manager.start_process(cmd, log_path), whose open(log_path, "w")
\* empties the log file and whose process writes to it from offset 0.  If
\* start_process raises, the handler answers HTTPException(500) at once (lines
\* 96-97 / 170-171), with the process table as the failed start left it, and
\* with the log file emptied if the failure came after the open ("badcmd").
export_model_start(t, type, name, arg) ==
    /\ Free(t)
    /\ type \in Types /\ name \in Names
    /\ LET log_path == [type |-> type, name |-> name] IN
        IF arg = "ok"
          THEN /\ start_process_ok(t)
               /\ logs' = [logs EXCEPT ![log_path] = <<>>]
               /\ fds' = [fds EXCEPT ![NextPid] = [file |-> log_path, off |-> 0]]
               /\ th' = [th EXCEPT ![t] = [IdleThread EXCEPT !.op = type, !.pc = "track"]]
          ELSE /\ arg \in {"badlog", "badcmd"}
               /\ processes' = FailedStartTable
               /\ logs' = IF arg = "badcmd" THEN [logs EXCEPT ![log_path] = <<>>] ELSE logs
               /\ UNCHANGED <<osState, sig, frame, stopped, th, fds>>
    /\ UNCHANGED <<jobs, mon, calls, tracked, info, announced>>
    /\ UNCHANGED busVars

\* track_process(pid, job_type, name, log_path=None), as called at lines 94-95 /
\* 168-169 with the log path of the process (given) or by a caller that leaves
\* log_path out: the entry is stored with log_pos 0.
track_process(t, given) ==
    /\ th[t].op \in Types /\ th[t].pc = "track"
    /\ LET pid == frame[t].pid IN
        /\ tracked' = Append(tracked, pid)
        /\ info' = [info EXCEPT ![pid] =
                      [type |-> th[t].op, name |-> fds[pid].file.name,
                       log_path |-> IF given THEN fds[pid].file ELSE NoFile,
                       log_pos |-> 0]]
    /\ th' = [th EXCEPT ![t] = IdleThread]
    /\ frame' = [frame EXCEPT ![t] = IdleFrame]
    /\ UNCHANGED <<processes, osState, sig, stopped, jobs, mon, calls, logs, fds, announced>>
    /\ UNCHANGED busVars

\* The file after a write of character c at offset off: the character at that
\* place is replaced, or the file grows, with a hole if off is beyond its end.
WriteAt(text, off, c) ==
    IF off < Len(text) THEN [text EXCEPT ![off + 1] = c]
    ELSE text \o [i \in 1..(off - Len(text)) |-> "nul"] \o <<c>>

\* A running process writes a character to its stdout, which is its log file
\* (opened without O_APPEND: the write goes to the offset of its own descriptor).
ProcWrite(p, c) ==
    /\ Alive(p)
    /\ fds[p].off < MaxLog
    /\ logs' = [logs EXCEPT ![fds[p].file] = WriteAt(@, fds[p].off, c)]
    /\ fds' = [fds EXCEPT ![p].off = @ + 1]
    /\ UNCHANGED <<pmVars, busVars, jobVars, tracked, info, announced>>

\* [line.rstrip() for line in f.readlines()]: the text cut after every line
\* feed, an unfinished last line included, each line without its line feed.
RECURSIVE SplitFrom(_, _)
SplitFrom(text, line) ==
    IF text = <<>> THEN (IF line = <<>> THEN <<>> ELSE <<line>>)
    ELSE IF Head(text) = "nl" THEN <<line>> \o SplitFrom(Tail(text), <<>>)
    ELSE SplitFrom(Tail(text), Append(line, Head(text)))

ReadLines(text) == SplitFrom(text, <<>>)

\* The content of the log file of the entry of p.
LogOf(p) == logs[info[p].log_path]

\* f.seek(info["log_pos"]); f.readlines(): the text from log_pos to the end
\* (nothing when log_pos is at or beyond the end).
NewText(p) == SubSeq(LogOf(p), info[p].log_pos + 1, Len(LogOf(p)))

\* lines 91-96: the log_update event.
LogUpdate(p, lines) ==
    Message("log_update", [pid |-> p, name |-> info[p].name, type |-> info[p].type,
                           lines |-> lines])

\* lines 102-105: the f"{info['type']}_completed" event.
TrackedCompleted(p) ==
    Message(IF info[p].type = "export" THEN "export_completed" ELSE "calibration_completed",
            [name |-> info[p].name, status |-> "completed"])

\* line 81: `for pid, info in self._tracked_processes.items()` creates the
\* iterator over the dict as it is now; completed_pids = [].
monitor_tracked_iter ==
    /\ mon.pc = "jobs" /\ mon.todo = <<>>
    /\ tracked # <<>>
    /\ mon' = [mon EXCEPT !.pc = "tracked", !.titer = tracked, !.tsize = Len(tracked),
                          !.completed_pids = <<>>]
    /\ UNCHANGED <<pmVars, jobs, th, calls>>
    /\ UNCHANGED <<busVars, trackVars>>

\* The dict without the keys of completed_pids (lines 108-109).
RECURSIVE Untracked(_, _)
Untracked(list, pids) ==
    IF pids = <<>> THEN list ELSE Untracked(Remove(list, Head(pids)), Tail(pids))

AfterException_Dead(e) == [SleepingMonitor EXCEPT !.pc = "dead", !.err = e]

\* lines 111-114: `except Exception as e` logs the error, and the loop goes on
\* to await asyncio.sleep(2).
AfterException(e) == [SleepingMonitor EXCEPT !.err = e]

AfterReadError_Raised == AfterException("read")

\* lines 97-98: `except Exception as e` inside the loop body logs the error, and
\* the body goes on to line 100.
AfterReadError == [mon EXCEPT !.pc = "twait", !.err = "read"]

\* The loop is at an entry: the dict has the size it had at line 81 and the
\* iterator has a next item.
AtEntry == mon.pc = "tracked" /\ Len(tracked) = mon.tsize /\ mon.titer # <<>>

\* The iterator's next item.  It raises RuntimeError when the dict has changed
\* size since line 81 (a track_process on a worker thread), which ends the tick
\* at line 111.  When the items are exhausted, lines 108-109 delete the
\* completed pids and the monitor sleeps.  Otherwise lines 83-100: with a
\* log_path of None, os.path.exists raises TypeError, outside the try of line
\* 84, which ends the tick; else the new lines of the log, if any, are
\* broadcast as log_update and log_pos becomes the end of the file; then
\* is_process_running(pid) is called.
monitor_tracked_next ==
    /\ mon.pc = "tracked"
    /\ IF Len(tracked) # mon.tsize
         THEN /\ mon' = AfterException("RuntimeError")
              /\ UNCHANGED <<pmVars, busVars, trackVars>>
         ELSE IF mon.titer = <<>>
         THEN /\ tracked' = Untracked(tracked, mon.completed_pids)
              /\ mon' = SleepingMonitor
              /\ UNCHANGED <<pmVars, busVars, info, logs, fds, announced>>
         ELSE IF info[Head(mon.titer)].log_path = NoFile
         THEN /\ mon' = AfterException("TypeError")
              /\ UNCHANGED <<pmVars, busVars, trackVars>>
         ELSE LET p == Head(mon.titer)
                  new_lines == ReadLines(NewText(p))
              IN /\ IF new_lines # <<>>
                      THEN /\ info' = [info EXCEPT ![p].log_pos = Len(LogOf(p))]
                           /\ Broadcast(LogUpdate(p, new_lines))
                      ELSE UNCHANGED <<info, busVars>>
                 /\ is_process_running_get(Mon, p)
                 /\ mon' = [mon EXCEPT !.pc = "twait"]
                 /\ UNCHANGED <<tracked, logs, fds, announced>>
    /\ UNCHANGED <<jobs, th, calls>>

\* lines 84-98 when opening or reading the log file raises (the file cannot be
\* opened, or its bytes cannot be decoded): nothing was assigned or broadcast;
\* the error is logged and is_process_running(pid) is called.
monitor_tracked_readfail ==
    /\ AtEntry
    /\ info[Head(mon.titer)].log_path # NoFile
    /\ mon' = AfterReadError
    /\ is_process_running_get(Mon, Head(mon.titer))
    /\ UNCHANGED <<jobs, th, calls>>
    /\ UNCHANGED <<busVars, trackVars>>

\* lines 100-106: if the process is not running, broadcast its completed event
\* and note the pid for removal.
monitor_tracked_done ==
    /\ mon.pc = "twait" /\ frame[Mon].pc = "done"
    /\ LET p == Head(mon.titer) IN
        IF frame[Mon].ret = "false"
          THEN /\ Broadcast(TrackedCompleted(p))
               /\ announced' = [announced EXCEPT ![p] = @ + 1]
               /\ mon' = [mon EXCEPT !.pc = "tracked", !.titer = Tail(@), !.err = "-",
                                     !.completed_pids = Append(@, p)]
          ELSE /\ mon' = [mon EXCEPT !.pc = "tracked", !.titer = Tail(@), !.err = "-"]
               /\ UNCHANGED <<busVars, announced>>
    /\ frame' = [frame EXCEPT ![Mon] = IdleFrame]
    /\ UNCHANGED <<processes, osState, sig, stopped, jobs, th, calls, tracked, info, logs, fds>>

\* ---------------------------------------------------------------- specifications
Init ==
    /\ processes = {}
    /\ osState = [p \in Pids |-> "none"]
    /\ sig = [p \in Pids |-> "none"]
    /\ frame = [c \in Callers |-> IdleFrame]
    /\ stopped = {}
    /\ subscribers = <<>>
    /\ queues = [k \in Conns |-> <<>>]
    /\ gen = [k \in Conns |-> "none"]
    /\ received = [k \in Conns |-> <<>>]
    /\ sent = <<>>
    /\ openedAt = [k \in Conns |-> -1]
    /\ closedAt = [k \in Conns |-> -1]
    /\ jobs = [j \in JobIds |-> NoRow]
    /\ th = [t \in Threads |-> IdleThread]
    /\ mon = SleepingMonitor
    /\ calls = 0
    /\ tracked = <<>>
    /\ info = [p \in Pids |-> NoInfo]
    /\ logs = [f \in Files |-> <<>>]
    /\ fds = [p \in Pids |-> NoFd]
    /\ announced = [p \in Pids |-> 0]

\* The training handlers on the request threads, the monitor, the processes.
Next ==
    \/ \E t \in Threads, valid \in BOOLEAN : start_training_create(t, valid)
    \/ \E t \in Threads : start_training_spawn(t)
    \/ \E t \in Threads : start_training_attach(t)
    \/ \E t \in Threads, j \in JobIds : get_job_load(t, j)
    \/ \E t \in Threads : get_job_commit(t)
    \/ \E t \in Threads, j \in JobIds : stop_job_load(t, j)
    \/ \E t \in Threads : stop_job_commit(t)
    \/ \E t \in Threads : list_jobs_load(t)
    \/ \E t \in Threads : list_jobs_next(t)
    \/ \E t \in Threads : clear_jobs_load(t)
    \/ \E t \in Threads : clear_jobs_next(t)
    \/ \E t \in Threads : clear_jobs_commit(t)
    \/ monitor_select
    \/ monitor_check
    \/ monitor_mark
    \/ monitor_sleep
    \/ \E c \in Callers : PMStep(c)
    \/ \E p \in Pids : ProcExit(p)

Spec == Init /\ [][Next]_vars

\* The EventManager alone: connections come and go while messages are broadcast.
NextBus ==
    \/ \E t \in EventTypes, d \in Payloads : broadcast(t, d)
    \/ \E k \in Conns : events(k)
    \/ \E k \in Conns : subscribe_start(k)
    \/ \E k \in Conns : subscribe_get(k)
    \/ \E k \in Conns : subscribe_next(k)
    \/ \E k \in Conns : subscribe_cancelled(k)
    \/ \E k \in Conns : subscribe_closed_at_yield(k)
    \/ \E k \in Conns : subscribe_never_started(k)

SpecBus == Init /\ [][NextBus]_vars

\* The ProcessManager alone: concurrent callers invoke the three operations
\* directly, with any pid: the request threads all three, the monitor
\* is_process_running.
NextPM ==
    \/ \E c \in Threads : start_process_ok(c) /\ UNCHANGED <<busVars, jobVars, trackVars>>
    \/ \E c \in Threads, arg \in {"badlog", "badcmd"} :
          start_process_fail(c, arg) /\ UNCHANGED <<busVars, jobVars, trackVars>>
    \/ \E c \in Threads, p \in Pids : stop_process_get(c, p) /\ UNCHANGED <<busVars, jobVars, trackVars>>
    \/ \E c \in Callers, p \in Pids :
          is_process_running_get(c, p) /\ UNCHANGED <<busVars, jobVars, trackVars>>
    \/ \E c \in Callers : PMStep(c)
    \/ \E p \in Pids : ProcExit(p)

SpecPM == Init /\ [][NextPM]_vars

\* The export and calibration requests, their processes and the monitor, with
\* no training job in the table (part 1 of the monitor's tick finds no row).
\* A start that fails does so before the log file is opened.
NextTrack ==
    \/ \E t \in Threads, type \in Types, name \in Names, arg \in {"ok", "badlog"} :
          export_model_start(t, type, name, arg)
    \/ \E t \in Threads : track_process(t, TRUE)
    \/ \E p \in Pids, c \in Chars : ProcWrite(p, c)
    \/ \E p \in Pids : ProcExit(p)
    \/ monitor_select
    \/ monitor_tracked_iter
    \/ monitor_tracked_next
    \/ monitor_tracked_done
    \/ monitor_sleep
    \/ is_process_running_poll(Mon)

SpecTrack == Init /\ [][NextTrack]_vars

\* The steps of the monitor task.  The event loop runs the task whenever it can
\* go on: its sleep ends, and poll() returns at once.
MonitorStep ==
    \/ monitor_select
    \/ monitor_tracked_iter
    \/ monitor_tracked_next
    \/ monitor_tracked_readfail
    \/ monitor_tracked_done
    \/ monitor_sleep
    \/ is_process_running_poll(Mon)

\* The EventManager's tracking as its interface allows it: a caller (one
\* request thread) starts a process and tracks it with its log path or without
\* one (log_path is optional), log files may fail to be read, and the monitor
\* task is scheduled fairly.  An entry without log path is the first of the
\* table: nothing is tracked when it is inserted.
NextAdHoc ==
    \/ \E t \in {"t1"}, type \in Types, name \in Names : export_model_start(t, type, name, "ok")
    \/ \E t \in {"t1"} : track_process(t, TRUE)
    \/ \E t \in {"t1"} : tracked = <<>> /\ track_process(t, FALSE)
    \/ \E p \in Pids, c \in Chars : ProcWrite(p, c)
    \/ \E p \in Pids : ProcExit(p)
    \/ monitor_select
    \/ monitor_tracked_iter
    \/ monitor_tracked_next
    \/ monitor_tracked_readfail
    \/ monitor_tracked_done
    \/ monitor_sleep
    \/ is_process_running_poll(Mon)

SpecAdHoc == Init /\ [][NextAdHoc]_vars /\ WF_vars(MonitorStep)

\* ---------------------------------------------------------------- claims: ProcessManager
\* Caller c's step starts a new call of op (its frame changes to one of op).
Enters(c, op) == CanCall(c) /\ frame'[c].op = op /\ frame'[c] # frame[c]

\* Caller c's step ends its call of op (by a return or a raise).
Leaves(c, op) == frame'[c].op = op /\ frame'[c].pc = "done" /\ frame'[c] # frame[c]

\* One step of a stop(P) call, against the contract of stop.
C4_StopStep ==
    \A c \in Callers :
        LET p == frame'[c].pid IN
        /\ Enters(c, "stop") =>
             /\ processes' = processes
             /\ p \notin processes <=> frame'[c].ret = "false"
             /\ p \in processes <=> frame'[c].pc = "wait"
             /\ (p \in processes /\ Alive(p)) => sig'[p] # "none"
             /\ p \in stopped => frame'[c].ret = "false"
        /\ (Leaves(c, "stop") /\ frame'[c].ret = "false") =>
             p \notin processes /\ processes' = processes
        /\ (frame[c].op = "stop" /\ frame[c].pc = "wait" /\ frame'[c].pc = "del") =>
             /\ Alive(p) => sig[p] # "none" /\ sig'[p] = "kill"
             /\ ~Alive(p) => sig' = sig
        /\ (frame[c].op = "stop" /\ frame[c].pc = "del" /\ Leaves(c, "stop")) =>
             /\ frame'[c].ret = "true"
             /\ p \in processes /\ processes' = processes \ {p}
        /\ (Enters(c, "isrun") /\ p \in stopped) => frame'[c].ret = "false"

\* C4: stop(P) returns false and leaves the process table unchanged when P is not
\* registered; a stop(P) that finds P registered sends the graceful termination,
\* sends the forceful kill only when the process has not exited by the end of the
\* grace wait, then removes P from the table and returns true; once a stop(P)
\* has returned true, P stays out of the table and every later isRunning(P) and
\* stop(P) returns false.
C4_StopContract ==
    /\ [](\A p \in stopped : p \notin processes)
    /\ [](\A p \in Pids : sig[p] = "kill" => p \in processes \cup stopped)
    /\ [][C4_StopStep]_vars

\* Caller c is inside an operation on the table entry of p: between the lookup
\* and the removal of a stop_process(p), or between the lookup and the poll of
\* an is_process_running(p).
OnEntry(c, p) == frame[c].pid = p /\ frame[c].pc \in {"wait", "del", "poll"}

\* C5: the operations on an entry of the process table are mutually exclusive:
\* no two callers are inside operations on the same entry at once (so no
\* isRunning(P) polls P while a stop(P) is removing it), and of two concurrent
\* stop(P) calls neither fails on the removal.
C5_MutualExclusion ==
    /\ \A c1, c2 \in Callers, p \in Pids : (OnEntry(c1, p) /\ OnEntry(c2, p)) => c1 = c2
    /\ \A c \in Callers : frame[c].ret # "KeyError"

\* One step of an isRunning(P) call, against the contract of isRunning.
C6_IsRunningStep ==
    \A c \in Callers :
        LET p == frame'[c].pid IN
        /\ Enters(c, "isrun") =>
             /\ p \notin processes <=> frame'[c].ret = "false"
             /\ p \in processes <=> frame'[c].pc = "poll"
             /\ (osState[p] = "none" \/ p \in stopped) => frame'[c].ret = "false"
        /\ (frame[c].op = "isrun" /\ frame[c].pc = "poll" /\ frame'[c].pc = "done") =>
             /\ frame'[c].ret = "true" <=> osState[p] = "alive"
             /\ frame'[c].ret = "false" <=> osState[p] = "exited"

\* C6: isRunning(P) answers true exactly when its lookup finds P registered and its
\* poll finds the process not exited; it answers false for an id that was never
\* started or whose stop has returned, and it never raises.
C6_IsRunningContract ==
    /\ [](\A c \in Callers : frame[c].op = "isrun" => frame[c].ret \in {"none", "true", "false"})
    /\ [](\A c \in Callers : (frame[c].op = "isrun" /\ frame[c].pc = "poll") =>
                                 osState[frame[c].pid] # "none")
    /\ [][C6_IsRunningStep]_vars

\* C6 witness: one isRunning has answered true for a registered live process and
\* another has answered false for a pid whose stop had returned.
C6_Witness ==
    \E c1, c2 \in Callers :
        /\ frame[c1].op = "isrun" /\ frame[c1].ret = "true"
        /\ frame[c1].pid \in processes /\ Alive(frame[c1].pid)
        /\ frame[c2].op = "isrun" /\ frame[c2].ret = "false"
        /\ frame[c2].pid \in stopped

\* A stop_process call has found p in the table (it is stopping p, or has).
StopRequested(p) ==
    \/ p \in stopped
    \/ \E c \in Callers : frame[c].op = "stop" /\ frame[c].pid = p /\ frame[c].ret # "false"

\* A start that returns, and an isRunning that returns, against C7.
C7_Step ==
    \A c \in Callers :
        LET p == frame'[c].pid IN
        /\ (Leaves(c, "start") /\ frame'[c].ret = "pid") =>
             p \in processes' /\ osState'[p] = "alive"
        /\ (Leaves(c, "isrun") /\ Alive(p) /\ ~StopRequested(p)) => frame'[c].ret = "true"

\* C7: a pid returned by start is registered, and as long as its process has not
\* exited and no stop of it was requested it stays registered and every
\* isRunning(P) answers true.
C7_StartedIsRunning ==
    /\ [](\A p \in Pids : (Alive(p) /\ ~StopRequested(p)) => p \in processes)
    /\ [][C7_Step]_vars

\* C7 witness: start returned P to one caller and isRunning(P) answered true to
\* another while P was alive and not stopped.
C7_Witness ==
    \E c1, c2 \in Callers :
        /\ frame[c1].op = "start" /\ frame[c1].ret = "pid"
        /\ frame[c2].op = "isrun" /\ frame[c2].ret = "true"
        /\ frame[c2].pid = frame[c1].pid
        /\ Alive(frame[c1].pid) /\ ~StopRequested(frame[c1].pid)

\* The first step of a start call, against C8.
C8_Step ==
    \A c \in Callers :
        /\ (Enters(c, "start") /\ frame'[c].arg # "ok") =>
             /\ frame'[c].ret = "OSError" /\ frame'[c].pid = 0
             /\ processes' = processes /\ osState' = osState
        /\ (Enters(c, "start") /\ frame'[c].arg = "ok") => frame'[c].ret = "pid"

\* C8: a start whose log file cannot be created or whose command cannot be
\* launched raises to its caller, returns no pid, spawns nothing and leaves the
\* process table as it was.
C8_FailedStart ==
    /\ [](\A c \in Callers : frame[c].op = "start" =>
             (frame[c].ret = "OSError" <=> frame[c].pid = 0))
    /\ [][C8_Step]_vars

\* C8 witness: a start has raised while the table held a registered process.
C8_Witness ==
    \E c \in Callers :
        /\ frame[c].op = "start" /\ frame[c].ret = "OSError"
        /\ processes # {}

\* ---------------------------------------------------------------- claims: EventManager
\* A step that is a broadcast call, against C9: its message is appended once to
\* the queue of every registered channel and to no other queue, and the
\* subscriber list is as it was.
C9_BroadcastStep ==
    Len(sent') = Len(sent) + 1 =>
        /\ subscribers' = subscribers
        /\ \A k \in Conns :
              queues'[k] = IF InList(k, subscribers)
                             THEN Append(queues[k], sent'[Len(sent')])
                             ELSE queues[k]

\* C9: broadcast enqueues its message exactly once on every channel registered
\* when it is called and on no other channel, whatever subscribe and
\* unsubscribe steps come before and after it: every registered channel has
\* been handed exactly the messages broadcast since its registration, a channel
\* unregistered by its generator was handed none since, and no channel is
\* registered twice.
C9_BroadcastExactlyOnce ==
    /\ [](\A i, j \in 1..Len(subscribers) : subscribers[i] = subscribers[j] => i = j)
    /\ [](\A k \in Conns :
            /\ InList(k, subscribers) =>
                  Len(received[k]) + Len(queues[k]) = Len(sent) - openedAt[k]
            /\ closedAt[k] >= 0 =>
                  /\ ~InList(k, subscribers)
                  /\ Len(received[k]) + Len(queues[k]) <= closedAt[k] - openedAt[k]
            /\ gen[k] \in {"none", "created"} => queues[k] = <<>> /\ received[k] = <<>>)
    /\ [][C9_BroadcastStep]_vars

\* C9 witness: the last broadcast was handed to two registered channels, after a
\* third channel, which an earlier broadcast had reached, was unregistered.
C9_Witness ==
    \E k1, k2, k3 \in Conns :
        /\ k1 # k2 /\ InList(k1, subscribers) /\ InList(k2, subscribers)
        /\ Len(sent) = 2
        /\ queues[k1] # <<>> /\ queues[k1][Len(queues[k1])] = sent[2]
        /\ queues[k2] # <<>> /\ queues[k2][Len(queues[k2])] = sent[2]
        /\ openedAt[k3] = 0 /\ closedAt[k3] = 1 /\ ~InList(k3, subscribers)

\* C10: the subscriber list holds only channels of still-connected consumers:
\* the generator of every registered channel is live (suspended in its get or
\* at its yield), so a broadcast enqueues nothing for a consumer that is gone.
C10_OnlyConnectedSubscribed ==
    \A i \in 1..Len(subscribers) : gen[subscribers[i]] \in {"get", "yield"}

\* The messages connection k's channel has been handed so far, in order: those
\* its generator has yielded (read back from the events) and those still queued.
RECURSIVE Decoded(_)
Decoded(evs) ==
    IF evs = <<>> THEN <<>>
    ELSE <<Message(Head(evs).data[2], Head(evs).data[3])>> \o Decoded(Tail(evs))

Handed(k) == Decoded(received[k]) \o queues[k]

\* A step that is a broadcast call, against C11: the message is put on the
\* channel of every consumer whose subscribe() call has returned and who is
\* still connected.
C11_BroadcastStep ==
    Len(sent') = Len(sent) + 1 =>
        \A k \in Conns :
            gen[k] \in {"created", "get", "yield"} =>
                queues'[k] = Append(queues[k], sent'[Len(sent')])

\* C11: no replay and no loss: a channel is handed no message broadcast before
\* its subscribe() call, and it is handed every message broadcast after its
\* subscribe() call returned, while its consumer stays connected.
C11_NoReplayNoLoss ==
    /\ [](\A k \in Conns :
            InList(k, subscribers) => Handed(k) = SubSeq(sent, openedAt[k] + 1, Len(sent)))
    /\ [][C11_BroadcastStep]_vars


\* Whether sequence a is a prefix of sequence b.
IsPrefix(a, b) == Len(a) <= Len(b) /\ SubSeq(b, 1, Len(a)) = a

\* A step in which connection k's generator takes a message, against C12: it
\* takes the head of its own queue and touches no other channel.
C12_ConsumeStep ==
    \A k \in Conns :
        received'[k] # received[k] =>
            /\ queues[k] # <<>>
            /\ received'[k] = Append(received[k], ServerSentEvent(Head(queues[k])))
            /\ queues'[k] = Tail(queues[k])
            /\ \A o \in Conns \ {k} : received'[o] = received[o] /\ queues'[o] = queues[o]

\* C12: every channel is an independent FIFO: what a generator has yielded is
\* a prefix of the messages broadcast since its registration, in broadcast
\* order; with what is still queued it is exactly those messages, each once,
\* while the channel is registered; and a generator that takes a message
\* changes nothing of any other channel.
C12_IndependentFifo ==
    /\ [](\A k \in Conns :
            /\ openedAt[k] >= 0 =>
                 IsPrefix(Decoded(received[k]), SubSeq(sent, openedAt[k] + 1, Len(sent)))
            /\ closedAt[k] >= 0 =>
                 IsPrefix(Decoded(received[k]), SubSeq(sent, openedAt[k] + 1, closedAt[k]))
            /\ InList(k, subscribers) =>
                 Handed(k) = SubSeq(sent, openedAt[k] + 1, Len(sent)))
    /\ [][C12_ConsumeStep]_vars

\* C12 witness: two different messages were broadcast to two channels; one
\* consumer has received both, in order, the other has taken none and has both
\* queued.
C12_Witness ==
    \E k1, k2 \in Conns :
        /\ k1 # k2 /\ InList(k1, subscribers) /\ InList(k2, subscribers)
        /\ Len(sent) = 2 /\ sent[1] # sent[2]
        /\ Decoded(received[k1]) = sent /\ queues[k1] = <<>>
        /\ received[k2] = <<>> /\ queues[k2] = sent

\* C13: broadcast never blocks on a slow or idle consumer: whatever is queued
\* and unconsumed on the registered channels, no put() of a broadcast has to
\* wait, so the call completes after enqueueing on each of them.
C13_BroadcastNeverBlocks ==
    \A i \in 1..Len(subscribers) : ~Full(queues[subscribers[i]])

\* C13 witness: every broadcast of the run has completed while one registered
\* consumer never took a message and has them all queued, and the queue of a
\* consumer that is gone is still registered and was filled as well.
C13_Witness ==
    \E k1, k2 \in Conns :
        /\ InList(k1, subscribers) /\ gen[k1] = "get" /\ received[k1] = <<>>
        /\ Len(sent) = MaxBroadcasts /\ queues[k1] = sent
        /\ InList(k2, subscribers) /\ gen[k2] = "closed" /\ queues[k2] # <<>>

\* ---------------------------------------------------------------- claims: training jobs
\* C1: a job's status is monotonic: once a row is completed, failed or stopped,
\* no step changes its status or its end_time while the row exists.
C1_TerminalIsFinal ==
    [][\A j \in JobIds :
          (jobs[j].status \in Terminal /\ jobs'[j].status # "deleted") =>
              /\ jobs'[j].status = jobs[j].status
              /\ jobs'[j].end_time = jobs[j].end_time]_vars

\* C2: a row has its end_time set exactly when its status is terminal, and the
\* column is written once.
C2_EndTimeIffTerminal ==
    \A j \in JobIds :
        Exists(j) => /\ jobs[j].end_time # 0 <=> jobs[j].status \in Terminal
                     /\ jobs[j].end_time <= 1

\* C3: a row that is running without a pid belongs to a start_training call
\* that has not returned yet.
C3_NoRunningWithoutPid ==
    \A j \in JobIds :
        (jobs[j].status = "running" /\ jobs[j].pid = 0) =>
            \E t \in Threads : th[t].op = "start" /\ th[t].job = j

\* How many of the messages in seq are m.
RECURSIVE Count(_, _)
Count(m, seq) ==
    IF seq = <<>> THEN 0
    ELSE (IF Head(seq) = m THEN 1 ELSE 0) + Count(m, Tail(seq))

\* C14: for a job whose process exited without a stop request and that has been
\* marked completed, exactly one job_completed event of it has been broadcast
\* (never zero, never two), whatever list_jobs and get_job calls are interleaved;
\* and no job ever has two.
C14_ExactlyOneJobCompleted ==
    \A j \in JobIds :
        /\ Count(JobCompleted(j), sent) <= 1
        /\ (/\ jobs[j].status = "completed"
            /\ sig[jobs[j].pid] = "none"
            /\ jobs[j].pid \notin stopped) => Count(JobCompleted(j), sent) = 1

\* C15: list_jobs and get_job are pure reads: a thread running one of them
\* makes no liveness check (no is_process_running call) and none of its steps
\* changes a row.
C15_ReadsArePure ==
    /\ [](\A t \in Threads : th[t].op \in {"get", "list"} => frame[t].op # "isrun")
    /\ [][\A t \in Threads :
            (th[t].op \in {"get", "list"} /\ th'[t] # th[t]) => jobs' = jobs]_vars

\* The steps of stop_job, against C16.
C16_StopJobStep ==
    \A t \in Threads :
        LET j == th'[t].job
            k == th[t].job
        IN
        \* a stop_job that goes on is on a running job with a pid, and is inside
        \* stop_process for that pid
        /\ (th[t].op = "idle" /\ th'[t].op = "stop") =>
             /\ jobs[j].status = "running" /\ jobs[j].pid # 0
             /\ frame'[t].op = "stop" /\ frame'[t].pid = jobs[j].pid
             /\ jobs' = jobs /\ processes' = processes
        \* and when it ends, the job is stopped with end_time set
        /\ (th[t].op = "stop" /\ th'[t].op = "idle") =>
             /\ jobs'[k].status = "stopped" /\ jobs'[k].end_time # 0
        \* nothing else of stop_job writes a row or the process table: a row
        \* becomes stopped only at the end of a stop_job that went on
        /\ \A i \in JobIds :
             (jobs'[i].status = "stopped" /\ jobs[i].status # "stopped") =>
                 \E u \in Threads : th[u].op = "stop" /\ th[u].job = i /\ th'[u].op = "idle"

\* C16: stop_job on a job that is running with a pid calls stop_process for it
\* and leaves the job stopped with end_time set; stop_job on a job that is not
\* running changes neither the row nor the process table.
C16_StopJobContract == [][C16_StopJobStep]_vars

\* The threads whose start_training of job j has got a pid from start_process
\* and not yet committed it.  The processes started for job j: the pid on its
\* row, or such a pid.
Starting(j) == {u \in Threads : th[u].op = "start" /\ th[u].job = j /\ frame[u].ret = "pid"}

ProcsOf(j) == ({jobs[j].pid} \ {0}) \cup {frame[u].pid : u \in Starting(j)}

\* The step that ends a clear_jobs, against C19.
C19_ClearStep ==
    \A t \in Threads :
        (th[t].op = "clear" /\ th'[t].op = "idle") =>
            \A j \in th[t].loaded :
                /\ ~(jobs'[j].status \in {"running"} \cup Terminal)
                /\ jobs[j].status = "running" => \A p \in ProcsOf(j) : p \notin processes'

\* C19: when clear_jobs returns, every job record it found has been deleted,
\* and no process of a job that was running when it was called is still
\* registered in the process table.
C19_ClearContract == [][C19_ClearStep]_vars

\* The monitor's step after is_process_running, against C20: when it writes a
\* row or broadcasts, the job is not one that a stop_job is stopping or has
\* stopped.
C20_MonitorStep ==
    (mon.pc = "wait" /\ mon' # mon /\ (jobs' # jobs \/ sent' # sent)) =>
        LET j == Head(mon.todo)[1] IN
        /\ jobs[j].status # "stopped"
        /\ ~\E t \in Threads : th[t].op = "stop" /\ th[t].job = j

\* C20: the death of a process caused by stop_job is recorded as stopped and
\* never as completed: the monitor neither marks a job completed nor broadcasts
\* job_completed for it while a stop_job is stopping it or after it was stopped.
C20_StoppedNeverCompleted == [][C20_MonitorStep]_vars


\* ---------------------------------------------------------------- claims: tracked processes
\* The lines of the log_update events of process p among the messages of seq,
\* one after the other.
RECURSIVE LinesSent(_, _)
LinesSent(p, seq) ==
    IF seq = <<>> THEN <<>>
    ELSE (IF Head(seq).type = "log_update" /\ Head(seq).data.pid = p
            THEN Head(seq).data.lines ELSE <<>>) \o LinesSent(p, Tail(seq))

\* A step that deletes the entry of p, which ends its lifetime (its process has
\* exited and has written all it ever writes), against C17: the lines of the
\* log_update events broadcast for p are the lines of its log file.
C17_RemoveStep ==
    \A p \in Pids :
        (InList(p, tracked) /\ ~InList(p, tracked')) =>
            LinesSent(p, sent) = ReadLines(LogOf(p))

\* C17: over the lifetime of a tracked process, the lines of all the log_update
\* events broadcast for it, one after the other, are the final content of its
\* log file split into lines: no line duplicated, split in two or omitted,
\* the output written just before the exit included.
C17_LogExactlyOnce == [][C17_RemoveStep]_vars

\* A step that removes entries from the table, against C18: it is the monitor's,
\* at the end of its loop, and the process of every removed entry has exited.
C18_RemoveStep ==
    \A p \in Pids :
        (InList(p, tracked) /\ ~InList(p, tracked')) =>
            /\ mon.pc = "tracked" /\ mon'.pc = "sleep"
            /\ ~Alive(p)
            /\ InList(p, mon.completed_pids)

\* C18: an entry is removed by the monitor only, in a tick that saw its process
\* not running, never while the process runs; every process has at most one
\* completed event; and between two ticks no process whose completed event has
\* been broadcast is still in the table, so that processes that exited before
\* the same tick are all reported by it and all absent at the following one.
C18_RemovedOnceWhenExited ==
    /\ [](\A p \in Pids :
            /\ announced[p] <= 1
            /\ (mon.pc = "sleep" /\ announced[p] > 0) =>
                   ~InList(p, tracked))
    /\ [][C18_RemoveStep]_vars


\* ---------------------------------------------------------------- claims: process table and terminal jobs
\* A step in which is_process_running(P) returns False after polling the handle
\* of a registered process (which has exited), against C25: P is no longer a
\* key of the process table.
C25_PollStep ==
    \A c \in Callers :
        (/\ frame[c].op = "isrun" /\ frame[c].pc = "poll"
         /\ frame'[c].pc = "done" /\ frame'[c].ret = "false") =>
            frame[c].pid \notin processes'

\* C25: a handle is removed from the process table when its process is
\* confirmed dead: once is_process_running(P) has returned False for a
\* registered P whose process exited, P is not an entry of the table.
C25_DeadHandleRemoved == [][C25_PollStep]_vars

\* is_process_running(pid) as a call made now would answer.
IsRunning(p) == p \in processes /\ PollIsNone(p)

\* C29: a job whose committed status is completed or stopped has no live
\* registered process: is_process_running of its pid is False.
C29_TerminalJobNotRunning ==
    \A j \in JobIds :
        (jobs[j].status \in {"completed", "stopped"} /\ jobs[j].pid \in Pids) =>
            ~IsRunning(jobs[j].pid)


\* A job is stopped, and its process, killed but not awaited, has not exited yet:
\* it is its removal from the process table that makes it not running.
C29_Witness ==
    \E j \in JobIds :
        /\ jobs[j].status = "stopped" /\ jobs[j].pid \in Pids
        /\ Alive(jobs[j].pid)
        /\ \E k \in JobIds : jobs[k].status = "completed"


\* A step taken while the monitor's loop over the table is under way (the
\* iterator of line 81 exists and the loop has not ended), against C24: the
\* table is as it was.
C24_IterationStep ==
    (mon.pc \in {"tracked", "twait"} /\ ~(mon.pc = "tracked" /\ mon.titer = <<>>)) =>
        tracked' = tracked

\* C24: the table of tracked processes is never changed while the monitor
\* iterates over it: the monitor's removals come after the loop, and a
\* track_process of a request handler does not insert during the loop.
C24_NoMutationWhileIterating == [][C24_IterationStep]_vars

\* C26: at most one completed event is ever broadcast for the entry of a
\* tracked process, also when a tick is ended by an exception after the
\* event and before the removals.
C26_AtMostOneCompleted == \A p \in Pids : announced[p] <= 1

\* The messages of seq from the first completed event of p on contain no
\* log_update of p.
RECURSIVE NoUpdateAfterCompleted(_, _, _)
NoUpdateAfterCompleted(p, seq, done) ==
    IF seq = <<>> THEN TRUE
    ELSE LET m == Head(seq) IN
        /\ ~(done /\ m.type = "log_update" /\ m.data.pid = p)
        /\ NoUpdateAfterCompleted(p, Tail(seq), done \/ m = TrackedCompleted(p))

\* C28: the events of one tracked process are in order: its log_update of a
\* tick comes before its completed event, and no log_update of it is broadcast
\* after its completed event (when no other entry has its type and name,
\* which would make the completed events alike).
C28_UpdatesBeforeCompleted ==
    \A p \in Pids :
        (/\ info[p].type # "-"
         /\ \A q \in Pids \ {p} : info[q].type # info[p].type) =>
            NoUpdateAfterCompleted(p, sent, FALSE)

\* C30: the log cursor of an entry starts at 0, never decreases, never exceeds
\* the current length of its log file, and changes only in a step of the
\* monitor that broadcasts a log_update for the entry.
C30_CursorStep ==
    \A p \in Pids :
        /\ (info[p].type = "-" /\ info'[p].type # "-") => info'[p].log_pos = 0
        /\ info'[p].log_pos >= info[p].log_pos
        /\ info'[p].log_path # NoFile => info'[p].log_pos <= Len(logs'[info'[p].log_path])
        /\ info'[p].log_pos # info[p].log_pos =>
              /\ mon.pc = "tracked" /\ Head(mon.titer) = p
              /\ sent' = Append(sent, LogUpdate(p, ReadLines(NewText(p))))

C30_CursorWithinFile == [][C30_CursorStep]_vars


\* ---------------------------------------------------------------- claims: the monitor's failures
\* A step of the monitor at an entry that was tracked without log path,
\* against C21: the loop goes on to the liveness check of that entry, with
\* no error.
C21_NoLogStep ==
    (AtEntry /\ info[Head(mon.titer)].log_path = NoFile /\ mon' # mon) =>
        mon'.pc = "twait" /\ mon'.err = "-"

\* C21: a process tracked without a log path is handled without error: no
\* log_update is ever broadcast for it, and the tick goes on to its liveness
\* check, which broadcasts its completed event and has it removed once its
\* process has exited.
C21_NoLogPathHandled ==
    /\ [](\A i \in 1..Len(sent) :
            sent[i].type = "log_update" => info[sent[i].data.pid].log_path # NoFile)
    /\ [][C21_NoLogStep]_vars

\* A step in which reading the log of the loop's entry fails, against C22: it is
\* caught there: nothing is broadcast, the entry (its cursor included) and the
\* table are as they were, the iterator stays at the entry, and the liveness
\* check of the entry is called.
C22_ReadFailStep ==
    (mon.pc = "tracked" /\ mon'.err = "read") =>
        /\ mon'.pc = "twait" /\ mon'.titer = mon.titer
        /\ frame'[Mon].op = "isrun" /\ frame'[Mon].pid = Head(mon.titer)
        /\ info' = info /\ sent' = sent /\ tracked' = tracked

\* The step that ends the handling of an entry whose log could not be read:
\* the loop goes on with the remaining entries.
C22_GoOnStep ==
    (mon.pc = "twait" /\ mon.err = "read" /\ mon' # mon) =>
        mon'.pc = "tracked" /\ mon'.titer = Tail(mon.titer)

C23_TicksForever == []<>(mon.pc = "jobs")

\* A tick has been ended by an exception, and the monitor is in its sleep.
C23_Witness == mon.pc = "sleep" /\ mon.err \in {"RuntimeError", "TypeError"}

\* C27: tracked processes do not starve each other: with the monitor
\* scheduled fairly, every tracked process whose OS process has exited is
\* eventually removed from the table (after its completed event), whatever
\* other entries are in the table.
C27_NoStarvation ==
    \A p \in Pids :
        (InList(p, tracked) /\ osState[p] = "exited" /\ info[p].log_path # NoFile)
            ~> ~InList(p, tracked)

====
